---- MODULE Spec2Model ----
(***************************************************************************)
(* Model of venus-acout2-relay-control.py: the ACOut2Override state        *)
(* machine (python-statemachine) that drives the Venus relay from SOC,     *)
(* averaged DC power and the active AC source.                             *)
(*                                                                         *)
(* Power quantities are integers in tenths of a watt, so that the buffer   *)
(* sentinel -99999.9 W is the integer -999999 and every comparison of the  *)
(* mean against a threshold is exact.  SOC is in percent.                  *)
(***************************************************************************)
EXTENDS Integers, Sequences, FiniteSets, TLC

VARIABLES
  settings,           \* self._settings
  pc,                 \* "start" before ACOut2Override(...), "ready" after it, "failed" if it raised
  state,              \* current state of the machine: "off" / "on" ("none": no machine)
  currentParameters,  \* self._currentParameters
  dcPowerBuffer,      \* self._dcPowerBuffer (deque with maxlen DCPowerPeriodCount)
  relayCalls,         \* arguments of the relayCallback invocations, in order
  outcome,            \* how the last call returned: "ok" or the exception raised
  history,            \* arguments of the update_parameters calls, in order
  relayCommands,      \* arguments of the set_venus_relay calls, in order
  dbusLog,            \* <<dbusPath, value>> of the value changes handled, in order
  quit                \* mainloop.quit() has been called

vars == <<settings, pc, state, currentParameters, dcPowerBuffer, relayCalls, outcome, history,
          relayCommands, dbusLog, quit>>

----------------------------------------------------------------------------
(* Bounds *)

\* updates made once the window has been filled
MaxExtraUpdates == 1

RealisticMaxPower == 100000

\* value changes delivered by the monitor while the main loop runs
MaxValueChanges == 3

(* Program constants *)

Sentinel == -999999

GridLostSource == 240

ShippedSettings ==
  [MaxDCPower |-> -2500, MaxDCPowerSOC |-> 50, DCPowerPeriodCount |-> 180,
   MinSOC |-> 60, SOCHisteresis |-> 3, DCPowerHisteresis |-> 10000]

ACOut2OverrideSettings(n) == [ShippedSettings EXCEPT !.DCPowerPeriodCount = n]

ACOut2OverrideParameters(soc, power, source) ==
  [SOC |-> soc, DCPower |-> power, ACSource |-> source]

(* Inputs *)

WindowSizes == {-1, 0, 3}
SOCs == {50, 58, 61, 65}
Powers == {0, 10000}
ACSources == {1, GridLostSource}
ShippedSOCs == {55, 65}
RealisticPowers == {RealisticMaxPower}
MonitoredPaths == {"/Relay/0/State", "/Dc/Battery/Soc", "/Dc/Battery/Power", "/Ac/ActiveIn/Source"}
PathValues(dbusPath) ==
  CASE dbusPath = "/Dc/Battery/Soc"     -> ShippedSOCs
    [] dbusPath = "/Dc/Battery/Power"   -> {0, RealisticMaxPower}
    [] dbusPath = "/Ac/ActiveIn/Source" -> ACSources
    [] OTHER                            -> {0, 1}
Signals == {"SIGINT", "SIGTERM"}

----------------------------------------------------------------------------
(* collections.deque *)

\* sum(data), by halving so that a window of 180 entries stays shallow.
RECURSIVE SumRange(_, _, _)
SumRange(data, lo, hi) ==
  IF lo > hi THEN 0
  ELSE IF lo = hi THEN data[lo]
  ELSE LET mid == (lo + hi) \div 2
       IN SumRange(data, lo, mid) + SumRange(data, mid + 1, hi)

sum(data) == SumRange(data, 1, Len(data))

Repeat(x, n) == [i \in 1..n |-> x]

\* DequeAppend without the eviction of the oldest entry.
DequeAppend_noEvict(d, x, maxlen) ==
  IF maxlen = 0 THEN d ELSE Append(d, x)

\* deque.append on a deque created with maxlen: a full deque drops its
\* oldest entry, a deque of maxlen 0 stays empty.
DequeAppend(d, x, maxlen) ==
  IF maxlen = 0 THEN d
  ELSE IF Len(d) >= maxlen THEN Append(Tail(d), x)
  ELSE Append(d, x)

\* mean(data) as the fraction <<numerator, denominator>>; 0.0 for no data.
mean(data) ==
  LET n == Len(data) IN
  IF n = 0 THEN <<0, 1>> ELSE <<sum(data), n>>

GT(m, t) == m[1] > t * m[2]
LE(m, t) == m[1] <= t * m[2]

----------------------------------------------------------------------------
(* ACOut2Override *)

toggle_relay(closed, calls) == Append(calls, closed)

\* set_venus_relay: the command written to /Relay/0/State.
set_venus_relay(closed, commands) == Append(commands, closed)

\* main()'s relayCallback, lambda closed: set_venus_relay(monitor, closed):
\* an invocation made by the step (calls grew from before to after) is
\* passed on to set_venus_relay.
relayCallback(commands, before, after) ==
  IF Len(after) > Len(before)
  THEN set_venus_relay(after[Len(after)], commands)
  ELSE commands

\* on_poll without the test for an actual change.
on_poll_always(source, target, calls) == toggle_relay(target = "on", calls)

\* on_poll comparing the target with offState.
on_poll_offId(source, target, calls) ==
  IF source # target THEN toggle_relay(target = "off", calls) ELSE calls

on_poll(source, target, calls) ==
  IF source # target THEN toggle_relay(target = "on", calls) ELSE calls

\* ACOut_allowed without the ACSource test.
ACOut_allowed_noVeto(source, target, buf, p, s) ==
  IF source = target
  THEN IF GT(mean(buf), s.MaxDCPower) /\ p.SOC > s.MaxDCPowerSOC
       THEN TRUE
       ELSE p.SOC > s.MinSOC
  ELSE IF /\ GT(mean(buf), s.MaxDCPower + s.DCPowerHisteresis)
          /\ p.SOC > s.MaxDCPowerSOC + s.SOCHisteresis
       THEN TRUE
       ELSE p.SOC > s.MinSOC + s.SOCHisteresis

\* ACOut_allowed whose stay branch looks at MinSOC only.
ACOut_allowed_socOnly(source, target, buf, p, s) ==
  IF source = target
  THEN p.SOC > s.MinSOC
  ELSE IF p.ACSource = GridLostSource
       THEN FALSE
       ELSE IF /\ GT(mean(buf), s.MaxDCPower + s.DCPowerHisteresis)
               /\ p.SOC > s.MaxDCPowerSOC + s.SOCHisteresis
            THEN TRUE
            ELSE p.SOC > s.MinSOC + s.SOCHisteresis

\* ACOut_allowed whose change branch omits DCPowerHisteresis.
ACOut_allowed_noPowerHisteresis(source, target, buf, p, s) ==
  IF source = target
  THEN IF GT(mean(buf), s.MaxDCPower) /\ p.SOC > s.MaxDCPowerSOC
       THEN TRUE
       ELSE p.SOC > s.MinSOC
  ELSE IF p.ACSource = GridLostSource
       THEN FALSE
       ELSE IF /\ GT(mean(buf), s.MaxDCPower)
               /\ p.SOC > s.MaxDCPowerSOC + s.SOCHisteresis
            THEN TRUE
            ELSE p.SOC > s.MinSOC + s.SOCHisteresis

\* ACOut_allowed whose change branch omits SOCHisteresis on MinSOC.
ACOut_allowed_noSocHisteresis(source, target, buf, p, s) ==
  IF source = target
  THEN IF GT(mean(buf), s.MaxDCPower) /\ p.SOC > s.MaxDCPowerSOC
       THEN TRUE
       ELSE p.SOC > s.MinSOC
  ELSE IF p.ACSource = GridLostSource
       THEN FALSE
       ELSE IF /\ GT(mean(buf), s.MaxDCPower + s.DCPowerHisteresis)
               /\ p.SOC > s.MaxDCPowerSOC + s.SOCHisteresis
            THEN TRUE
            ELSE p.SOC > s.MinSOC

\* ACOut_allowed applying the hysteresis in the stay branch as well.
ACOut_allowed_stayHisteresis(source, target, buf, p, s) ==
  IF source = target
  THEN IF /\ GT(mean(buf), s.MaxDCPower + s.DCPowerHisteresis)
          /\ p.SOC > s.MaxDCPowerSOC + s.SOCHisteresis
       THEN TRUE
       ELSE p.SOC > s.MinSOC + s.SOCHisteresis
  ELSE IF p.ACSource = GridLostSource
       THEN FALSE
       ELSE IF /\ GT(mean(buf), s.MaxDCPower + s.DCPowerHisteresis)
               /\ p.SOC > s.MaxDCPowerSOC + s.SOCHisteresis
            THEN TRUE
            ELSE p.SOC > s.MinSOC + s.SOCHisteresis

\* ACOut_allowed with the ACSource test made before the branch.
ACOut_allowed_vetoAlways(source, target, buf, p, s) ==
  IF p.ACSource = GridLostSource
  THEN FALSE
  ELSE IF source = target
       THEN IF GT(mean(buf), s.MaxDCPower) /\ p.SOC > s.MaxDCPowerSOC
            THEN TRUE
            ELSE p.SOC > s.MinSOC
       ELSE IF /\ GT(mean(buf), s.MaxDCPower + s.DCPowerHisteresis)
               /\ p.SOC > s.MaxDCPowerSOC + s.SOCHisteresis
            THEN TRUE
            ELSE p.SOC > s.MinSOC + s.SOCHisteresis

\* ACOut_allowed with the two branches exchanged (hysteresis on the stay check).
ACOut_allowed_swapped(source, target, buf, p, s) ==
  IF source # target
  THEN IF GT(mean(buf), s.MaxDCPower) /\ p.SOC > s.MaxDCPowerSOC
       THEN TRUE
       ELSE p.SOC > s.MinSOC
  ELSE IF p.ACSource = GridLostSource
       THEN FALSE
       ELSE IF /\ GT(mean(buf), s.MaxDCPower + s.DCPowerHisteresis)
               /\ p.SOC > s.MaxDCPowerSOC + s.SOCHisteresis
            THEN TRUE
            ELSE p.SOC > s.MinSOC + s.SOCHisteresis

ACOut_allowed(source, target, buf, p, s) ==
  IF source = target
  THEN IF GT(mean(buf), s.MaxDCPower) /\ p.SOC > s.MaxDCPowerSOC
       THEN TRUE
       ELSE p.SOC > s.MinSOC
  ELSE IF p.ACSource = GridLostSource
       THEN FALSE
       ELSE IF /\ GT(mean(buf), s.MaxDCPower + s.DCPowerHisteresis)
               /\ p.SOC > s.MaxDCPowerSOC + s.SOCHisteresis
            THEN TRUE
            ELSE p.SOC > s.MinSOC + s.SOCHisteresis

ACOut_notallowed(source, target, buf, p, s) ==
  IF source = target
  THEN IF \/ LE(mean(buf), s.MaxDCPower + s.DCPowerHisteresis)
          \/ p.SOC <= s.MaxDCPowerSOC + s.SOCHisteresis
       THEN TRUE
       ELSE p.SOC <= s.MinSOC + s.SOCHisteresis
  ELSE IF \/ LE(mean(buf), s.MaxDCPower)
          \/ p.SOC <= s.MaxDCPowerSOC
       THEN TRUE
       ELSE p.SOC <= s.MinSOC

\* poll with switchOff tried before switchOn.
poll_offFirst(source, buf, p, s) ==
  IF ACOut_notallowed(source, "off", buf, p, s) THEN "off"
  ELSE IF ACOut_allowed(source, "on", buf, p, s) THEN "on"
  ELSE "none"

\* The event poll = switchOn | switchOff: the transitions leaving the current
\* state are tried in declaration order (to onState, then to offState) and the
\* first whose cond holds is taken; when none holds the library raises
\* TransitionNotAllowed ("none" here).
poll(source, buf, p, s) ==
  IF ACOut_allowed(source, "on", buf, p, s) THEN "on"
  ELSE IF ACOut_notallowed(source, "off", buf, p, s) THEN "off"
  ELSE "none"

\* update_parameters that polls before pushing the sample.
update_parameters_pollFirst(p) ==
  /\ pc = "ready"
  /\ currentParameters' = p
  /\ dcPowerBuffer' = DequeAppend(dcPowerBuffer, p.DCPower, settings.DCPowerPeriodCount)
  /\ LET target == poll(state, dcPowerBuffer, p, settings) IN
       IF target = "none"
       THEN /\ state' = state
            /\ relayCalls' = relayCalls
            /\ outcome' = "TransitionNotAllowed"
       ELSE /\ state' = target
            /\ relayCalls' = on_poll(state, target, relayCalls)
            /\ outcome' = "ok"
  /\ relayCommands' = relayCallback(relayCommands, relayCalls, relayCalls')
  /\ history' = Append(history, p)
  /\ UNCHANGED <<settings, pc, quit>>

update_parameters(p) ==
  /\ pc = "ready"
  /\ currentParameters' = p
  /\ dcPowerBuffer' = DequeAppend(dcPowerBuffer, p.DCPower, settings.DCPowerPeriodCount)
  /\ LET target == poll(state, dcPowerBuffer', p, settings) IN
       IF target = "none"
       THEN /\ state' = state
            /\ relayCalls' = relayCalls
            /\ outcome' = "TransitionNotAllowed"
       ELSE /\ state' = target
            /\ relayCalls' = on_poll(state, target, relayCalls)
            /\ outcome' = "ok"
  /\ relayCommands' = relayCallback(relayCommands, relayCalls, relayCalls')
  /\ history' = Append(history, p)
  /\ UNCHANGED <<settings, pc, quit>>

\* Construct without the initial toggle_relay(False).
Construct_noRelay ==
  /\ pc = "start"
  /\ IF settings.DCPowerPeriodCount < 0
     THEN /\ pc' = "failed"
          /\ outcome' = "ValueError"
          /\ UNCHANGED <<state, currentParameters, dcPowerBuffer, relayCalls>>
     ELSE /\ pc' = "ready"
          /\ outcome' = "ok"
          /\ currentParameters' = ACOut2OverrideParameters(0, 0, 1)
          /\ dcPowerBuffer' = Repeat(Sentinel, settings.DCPowerPeriodCount)
          /\ relayCalls' = relayCalls
          /\ state' = "off"
  /\ relayCommands' = relayCallback(relayCommands, relayCalls, relayCalls')
  /\ UNCHANGED <<settings, history, dbusLog, quit>>

\* Construct that also rejects a window size of 0.
Construct_rejectZero ==
  /\ pc = "start"
  /\ IF settings.DCPowerPeriodCount <= 0
     THEN /\ pc' = "failed"
          /\ outcome' = "ValueError"
          /\ UNCHANGED <<state, currentParameters, dcPowerBuffer, relayCalls>>
     ELSE /\ pc' = "ready"
          /\ outcome' = "ok"
          /\ currentParameters' = ACOut2OverrideParameters(0, 0, 1)
          /\ dcPowerBuffer' = Repeat(Sentinel, settings.DCPowerPeriodCount)
          /\ relayCalls' = toggle_relay(FALSE, relayCalls)
          /\ state' = "off"
  /\ relayCommands' = relayCallback(relayCommands, relayCalls, relayCalls')
  /\ UNCHANGED <<settings, history, dbusLog, quit>>

\* ACOut2Override.__init__: deque(..., maxlen=n) raises ValueError for n < 0
\* before anything else happens; otherwise the relay is opened and the
\* machine starts in offState.
Construct ==
  /\ pc = "start"
  /\ IF settings.DCPowerPeriodCount < 0
     THEN /\ pc' = "failed"
          /\ outcome' = "ValueError"
          /\ UNCHANGED <<state, currentParameters, dcPowerBuffer, relayCalls>>
     ELSE /\ pc' = "ready"
          /\ outcome' = "ok"
          /\ currentParameters' = ACOut2OverrideParameters(0, 0, 1)
          /\ dcPowerBuffer' = Repeat(Sentinel, settings.DCPowerPeriodCount)
          /\ relayCalls' = toggle_relay(FALSE, relayCalls)
          /\ state' = "off"
  /\ relayCommands' = relayCallback(relayCommands, relayCalls, relayCalls')
  /\ UNCHANGED <<settings, history, dbusLog, quit>>

\* A caller of the engine applying any parameters.
Update ==
  /\ Len(history) < settings.DCPowerPeriodCount + MaxExtraUpdates
  /\ \E soc \in SOCs, power \in Powers, source \in ACSources :
       update_parameters(ACOut2OverrideParameters(soc, power, source))
  /\ UNCHANGED dbusLog

\* main(): the first update with the values read from the monitor.
InitialUpdate ==
  /\ history = <<>>
  /\ \E soc \in ShippedSOCs, power \in RealisticPowers, source \in ACSources :
       update_parameters(ACOut2OverrideParameters(soc, power, source))
  /\ UNCHANGED dbusLog

\* dbus_value_change for "/Dc/Battery/Power": SOC and ACSource carried over.
PowerChanged ==
  /\ history # <<>>
  /\ Len(history) < settings.DCPowerPeriodCount + MaxExtraUpdates
  /\ \E value \in RealisticPowers :
       /\ update_parameters(ACOut2OverrideParameters(currentParameters.SOC, value,
                                                     currentParameters.ACSource))
       /\ dbusLog' = Append(dbusLog, <<"/Dc/Battery/Power", value>>)

\* dbus_value_change whose SOC branch puts the value in the DCPower field.
dbus_value_change_swapped(dbusPath, value) ==
  /\ dbusLog' = Append(dbusLog, <<dbusPath, value>>)
  /\ IF dbusPath = "/Dc/Battery/Soc"
     THEN update_parameters(ACOut2OverrideParameters(currentParameters.SOC, value,
                                                     currentParameters.ACSource))
     ELSE IF dbusPath = "/Dc/Battery/Power"
     THEN update_parameters(ACOut2OverrideParameters(currentParameters.SOC, value,
                                                     currentParameters.ACSource))
     ELSE IF dbusPath = "/Ac/ActiveIn/Source"
     THEN update_parameters(ACOut2OverrideParameters(currentParameters.SOC,
                                                     currentParameters.DCPower, value))
     ELSE /\ outcome' = "ok"
          /\ UNCHANGED <<settings, pc, state, currentParameters, dcPowerBuffer,
                         relayCalls, history, relayCommands, quit>>

\* dbus_value_change: one update per change of SOC, DC power or AC source,
\* the other two fields taken from currentParameters; nothing for any other
\* path.  (The statsd gauges are not modelled.)
dbus_value_change(dbusPath, value) ==
  /\ dbusLog' = Append(dbusLog, <<dbusPath, value>>)
  /\ IF dbusPath = "/Dc/Battery/Soc"
     THEN update_parameters(ACOut2OverrideParameters(value, currentParameters.DCPower,
                                                     currentParameters.ACSource))
     ELSE IF dbusPath = "/Dc/Battery/Power"
     THEN update_parameters(ACOut2OverrideParameters(currentParameters.SOC, value,
                                                     currentParameters.ACSource))
     ELSE IF dbusPath = "/Ac/ActiveIn/Source"
     THEN update_parameters(ACOut2OverrideParameters(currentParameters.SOC,
                                                     currentParameters.DCPower, value))
     ELSE /\ outcome' = "ok"
          /\ UNCHANGED <<settings, pc, state, currentParameters, dcPowerBuffer,
                         relayCalls, history, relayCommands, quit>>

\* monitor.valueChangedCallback, called from the main loop for any monitored
\* path once main() has made its first update.
ValueChanged ==
  /\ pc = "ready"
  /\ history # <<>>
  /\ ~quit
  /\ Len(dbusLog) < MaxValueChanges
  /\ \E dbusPath \in MonitoredPaths :
       \E value \in PathValues(dbusPath) : dbus_value_change(dbusPath, value)

\* kill_handler with mainloop.quit() after the write instead of in a finally.
kill_handler_noFinally(sig, writeFails) ==
  /\ IF sig = "SIGINT" \/ sig = "SIGTERM"
     THEN /\ relayCommands' = set_venus_relay(FALSE, relayCommands)
          /\ outcome' = IF writeFails THEN "WriteError" ELSE "ok"
          /\ quit' = ~writeFails
     ELSE UNCHANGED <<relayCommands, outcome, quit>>
  /\ UNCHANGED <<settings, pc, state, currentParameters, dcPowerBuffer, relayCalls,
                 history, dbusLog>>

\* kill_handler: set_venus_relay(monitor, False) inside try, mainloop.quit()
\* in finally; writeFails: monitor.set_value raises.
kill_handler(sig, writeFails) ==
  /\ IF sig = "SIGINT" \/ sig = "SIGTERM"
     THEN /\ relayCommands' = set_venus_relay(FALSE, relayCommands)
          /\ outcome' = IF writeFails THEN "WriteError" ELSE "ok"
          /\ quit' = TRUE
     ELSE UNCHANGED <<relayCommands, outcome, quit>>
  /\ UNCHANGED <<settings, pc, state, currentParameters, dcPowerBuffer, relayCalls,
                 history, dbusLog>>

\* SIGINT or SIGTERM delivered while the main loop runs.
Kill ==
  /\ pc = "ready"
  /\ history # <<>>
  /\ ~quit
  /\ \E sig \in Signals, writeFails \in BOOLEAN : kill_handler(sig, writeFails)

InitVars ==
  /\ pc = "start"
  /\ state = "none"
  /\ currentParameters = ACOut2OverrideParameters(0, 0, 1)
  /\ dcPowerBuffer = <<>>
  /\ relayCalls = <<>>
  /\ outcome = "none"
  /\ history = <<>>
  /\ relayCommands = <<>>
  /\ dbusLog = <<>>
  /\ quit = FALSE

Init == settings \in {ACOut2OverrideSettings(n) : n \in WindowSizes} /\ InitVars

Next == Construct \/ Update

Spec == Init /\ [][Next]_vars

InitShipped == settings = ShippedSettings /\ InitVars

NextShipped == Construct \/ InitialUpdate \/ PowerChanged

SpecShipped == InitShipped /\ [][NextShipped]_vars

NextMain == Construct \/ InitialUpdate \/ ValueChanged \/ Kill

SpecMain == InitShipped /\ [][NextMain]_vars

----------------------------------------------------------------------------
(* Vocabulary of the properties *)

\* The step is an update_parameters call.
IsUpdate == history' # history

HighPower(buf, s) == GT(mean(buf), s.MaxDCPower + s.DCPowerHisteresis)

LastN(seq, n) == SubSeq(seq, Len(seq) - n + 1, Len(seq))

SentinelCount(buf) == Cardinality({i \in 1..Len(buf) : buf[i] = Sentinel})

P7Parameters == ACOut2OverrideParameters(65, 0, 1)

\* C1: on every update the relay callback is invoked iff the state after the
\* update differs from the state before it, once, with TRUE for on and FALSE
\* for off; an update that confirms the state does not invoke it.
C1_CallbackIffChange ==
  [][IsUpdate =>
       relayCalls' = IF state' # state
                     THEN Append(relayCalls, state' = "on")
                     ELSE relayCalls]_vars

\* an update switched on (one call) and a later one confirmed on (no call)
C1_Witness ==
  /\ Len(history) >= 2
  /\ state = "on"
  /\ relayCalls = <<FALSE, TRUE>>
  /\ history[1].SOC = 65

\* C2: after construction and before any update the callback has been
\* invoked exactly once, with FALSE, and the state is off.
C2_InitialSafety ==
  (pc = "ready" /\ history = <<>>) => (relayCalls = <<FALSE>> /\ state = "off")

C2_Witness == pc = "ready" /\ history = <<>> /\ Len(relayCalls) = 1

\* C3: as long as every update so far carried ACSource = 240, the engine has
\* never left off and the callback was never invoked with TRUE.
C3_GridVeto ==
  (pc = "ready" /\ \A i \in 1..Len(history) : history[i].ACSource = GridLostSource)
    => (state = "off" /\ \A j \in 1..Len(relayCalls) : relayCalls[j] = FALSE)

\* three favourable updates (SOC 65, high averaged power) under the veto
C3_Witness ==
  /\ Len(history) >= 3
  /\ \A i \in 1..Len(history) :
       history[i].ACSource = GridLostSource /\ history[i].SOC = 65
  /\ HighPower(dcPowerBuffer, settings)
  /\ state = "off"

\* C4: an update for which neither guard holds completes normally, keeps the
\* state and does not invoke the callback.
C4_NoGuardHolds ==
  [][(/\ IsUpdate
      /\ ~ACOut_allowed(state, "on", dcPowerBuffer', currentParameters', settings)
      /\ ~ACOut_notallowed(state, "off", dcPowerBuffer', currentParameters', settings))
     => (outcome' = "ok" /\ state' = state /\ relayCalls' = relayCalls)]_vars

\* C5: on every update at least one of the two guards holds for the state the
\* update starts in.
C5_GuardCoverage ==
  [][IsUpdate =>
       \/ ACOut_allowed(state, "on", dcPowerBuffer', currentParameters', settings)
       \/ ACOut_notallowed(state, "off", dcPowerBuffer', currentParameters', settings)]_vars

\* C6: with a window of 3, after one, two or three updates (65, 0, 1) from
\* construction the state is on and the callback sequence is FALSE, TRUE.
C6_CallbackWiring ==
  (/\ settings.DCPowerPeriodCount = 3
   /\ Len(history) \in 1..3
   /\ \A i \in 1..Len(history) : history[i] = P7Parameters)
    => (state = "on" /\ relayCalls = <<FALSE, TRUE>>)

C6_Witness ==
  /\ settings.DCPowerPeriodCount = 3
  /\ history = <<P7Parameters, P7Parameters, P7Parameters>>
  /\ relayCalls = <<FALSE, TRUE>>

\* C7: from off, an update with SOC 61, ACSource other than 240 and averaged
\* power above MaxDCPower + DCPowerHisteresis switches on; from on, with the
\* averaged power unchanged (and above that level), an update with SOC 58
\* leaves the engine on.
C7_HysteresisBand ==
  [][IsUpdate =>
       /\ (/\ state = "off"
           /\ currentParameters'.SOC = 61
           /\ currentParameters'.ACSource # GridLostSource
           /\ HighPower(dcPowerBuffer', settings))
          => state' = "on"
       /\ (/\ state = "on"
           /\ currentParameters'.SOC = 58
           /\ mean(dcPowerBuffer') = mean(dcPowerBuffer)
           /\ HighPower(dcPowerBuffer, settings))
          => state' = "on"]_vars

\* switched on at SOC 61 by the third high-power sample, then SOC 58 and still on
C7_Witness ==
  /\ settings.DCPowerPeriodCount = 3
  /\ Len(history) = 4
  /\ \A i \in 1..3 : history[i] = ACOut2OverrideParameters(61, 10000, 1)
  /\ history[4] = ACOut2OverrideParameters(58, 10000, 1)
  /\ state = "on"
  /\ relayCalls = <<FALSE, TRUE>>

\* C8: the window is the last DCPowerPeriodCount entries of the sentinels
\* followed by the DCPower values of the updates in arrival order; its length
\* is DCPowerPeriodCount; once that many updates were made no sentinel is
\* left and the mean is the sum of the last DCPowerPeriodCount values over
\* DCPowerPeriodCount.
C8_RollingWindow ==
  pc = "ready" =>
    LET n      == settings.DCPowerPeriodCount
        values == [i \in 1..Len(history) |-> history[i].DCPower]
    IN /\ dcPowerBuffer = LastN(Repeat(Sentinel, n) \o values, n)
       /\ Len(dcPowerBuffer) = n
       /\ (n >= 1 /\ Len(history) >= n) =>
            /\ SentinelCount(dcPowerBuffer) = 0
            /\ mean(dcPowerBuffer) = <<sum(LastN(values, n)), n>>

\* four updates into a window of 3: a real sample has been evicted
C8_Witness ==
  /\ settings.DCPowerPeriodCount = 3
  /\ Len(history) = 4
  /\ history[1].DCPower = 10000
  /\ dcPowerBuffer = <<0, 10000, 0>>

C10_WarmUp ==
  [][(IsUpdate /\ Len(history') < settings.DCPowerPeriodCount) =>
       /\ ~HighPower(dcPowerBuffer', settings)
       /\ (state = "off" /\ state' = "on")
            => currentParameters'.SOC > settings.MinSOC + settings.SOCHisteresis]_vars

\* C10 amended: the same while at least 16 sentinels are in the window
\* (fewer than 165 updates were processed).
C10_WarmUp16 ==
  [][(IsUpdate /\ SentinelCount(dcPowerBuffer') >= 16) =>
       /\ ~HighPower(dcPowerBuffer', settings)
       /\ (state = "off" /\ state' = "on")
            => currentParameters'.SOC > settings.MinSOC + settings.SOCHisteresis]_vars

\* switched on by the first update, 179 sentinels in the window
C10_Witness ==
  /\ settings = ShippedSettings
  /\ Len(history) = 1
  /\ SentinelCount(dcPowerBuffer) = 179
  /\ state = "on"
  /\ currentParameters.SOC = 65

Last(seq) == seq[Len(seq)]

\* C11: an update stores exactly its argument, pushes exactly its DCPower
\* into the window (which stays empty when its capacity is 0), leaves the
\* settings alone, and the outcome is the policy evaluated on the new
\* parameters and the new window, whatever that outcome is;
\* currentParameters is the argument of the latest update, (0, 0, 1) before
\* the first.
C11_UpdateEffect ==
  /\ [](pc = "ready" =>
          currentParameters = IF history = <<>>
                              THEN ACOut2OverrideParameters(0, 0, 1)
                              ELSE Last(history))
  /\ [][IsUpdate =>
          LET p == Last(history')
              t == poll(state, dcPowerBuffer', p, settings)
          IN /\ Len(history') = Len(history) + 1
             /\ currentParameters' = p
             /\ dcPowerBuffer' = IF settings.DCPowerPeriodCount >= 1
                                 THEN Append(Tail(dcPowerBuffer), p.DCPower)
                                 ELSE <<>>
             /\ settings' = settings
             /\ state' = IF t = "none" THEN state ELSE t]_vars

\* an update that matched no guard: parameters stored and sample pushed all the same
C11_Witness ==
  /\ settings.DCPowerPeriodCount = 3
  /\ outcome = "TransitionNotAllowed"
  /\ currentParameters = Last(history)
  /\ Last(dcPowerBuffer) = currentParameters.DCPower

\* C12: a value change of the SOC, DC power or AC source path makes one
\* update in which only that field is the new value and the other two are
\* the current parameters; a value change of any other monitored path (the
\* relay state) makes no update and changes nothing of the engine.
C12_Dispatch ==
  [][dbusLog' # dbusLog =>
       LET dbusPath == Last(dbusLog')[1]
           value    == Last(dbusLog')[2]
       IN CASE dbusPath = "/Dc/Battery/Soc" ->
                 /\ Len(history') = Len(history) + 1
                 /\ Last(history') = [currentParameters EXCEPT !.SOC = value]
            [] dbusPath = "/Dc/Battery/Power" ->
                 /\ Len(history') = Len(history) + 1
                 /\ Last(history') = [currentParameters EXCEPT !.DCPower = value]
            [] dbusPath = "/Ac/ActiveIn/Source" ->
                 /\ Len(history') = Len(history) + 1
                 /\ Last(history') = [currentParameters EXCEPT !.ACSource = value]
            [] OTHER ->
                 UNCHANGED <<history, currentParameters, dcPowerBuffer, state,
                             relayCalls, relayCommands>>]_vars

\* SOC change (switching the relay on), then the relay state change, then a
\* power change: two updates for three value changes
C12_Witness ==
  /\ Len(dbusLog) = 3
  /\ dbusLog[1] = <<"/Dc/Battery/Soc", 65>>
  /\ dbusLog[2] = <<"/Relay/0/State", 1>>
  /\ dbusLog[3] = <<"/Dc/Battery/Power", 0>>
  /\ Len(history) = 3
  /\ history[1].SOC = 55
  /\ history[2] = [history[1] EXCEPT !.SOC = 65]
  /\ history[3] = [history[2] EXCEPT !.DCPower = 0]

\* C14: from off an update switches on iff ACSource is not 240 and (the mean
\* after the push is above MaxDCPower + DCPowerHisteresis with SOC above
\* MaxDCPowerSOC + SOCHisteresis, or SOC is above MinSOC + SOCHisteresis);
\* otherwise the engine is off after it.
C14_DecisionOff ==
  [][(IsUpdate /\ state = "off") =>
       LET p == currentParameters'
           s == settings
           switch ==
             /\ p.ACSource # 240
             /\ \/ /\ GT(mean(dcPowerBuffer'), s.MaxDCPower + s.DCPowerHisteresis)
                   /\ p.SOC > s.MaxDCPowerSOC + s.SOCHisteresis
                \/ p.SOC > s.MinSOC + s.SOCHisteresis
       IN state' = IF switch THEN "on" ELSE "off"]_vars

\* switched on by the high-power clause at SOC 61, on the third sample
C14_Witness ==
  /\ settings.DCPowerPeriodCount = 3
  /\ history = [i \in 1..3 |-> ACOut2OverrideParameters(61, 10000, 1)]
  /\ state = "on"

\* C15: from on an update switches off iff SOC <= MinSOC and (the mean is
\* <= MaxDCPower or SOC <= MaxDCPowerSOC), no hysteresis added; otherwise the
\* engine is on after it.
C15_DecisionOn ==
  [][(IsUpdate /\ state = "on") =>
       LET p == currentParameters'
           s == settings
           switch ==
             /\ p.SOC <= s.MinSOC
             /\ \/ LE(mean(dcPowerBuffer'), s.MaxDCPower)
                \/ p.SOC <= s.MaxDCPowerSOC
       IN state' = IF switch THEN "off" ELSE "on"]_vars

\* on, then switched off at SOC 50 although the mean is high
C15_Witness ==
  /\ settings.DCPowerPeriodCount = 3
  /\ Len(history) = 4
  /\ \A i \in 1..3 : history[i] = ACOut2OverrideParameters(65, 10000, 1)
  /\ history[4] = ACOut2OverrideParameters(50, 10000, 1)
  /\ state = "off"
  /\ relayCalls = <<FALSE, TRUE, FALSE>>

\* C16: whenever ACOut_allowed holds for an update the state after it is on,
\* also when ACOut_notallowed holds too; ACOut_notallowed decides (off) only
\* when ACOut_allowed is false.
C16_GuardPriority ==
  [][IsUpdate =>
       LET canBeOn  == ACOut_allowed(state, "on", dcPowerBuffer', currentParameters', settings)
           canBeOff == ACOut_notallowed(state, "off", dcPowerBuffer', currentParameters', settings)
       IN /\ canBeOn => state' = "on"
          /\ (~canBeOn /\ canBeOff) => state' = "off"]_vars

\* on since the first update; the last update started in on with both guards true
C16_Witness ==
  /\ Len(history) >= 2
  /\ history[1] = P7Parameters
  /\ relayCalls = <<FALSE, TRUE>>
  /\ state = "on"
  /\ ACOut_allowed("on", "on", dcPowerBuffer, currentParameters, settings)
  /\ ACOut_notallowed("on", "off", dcPowerBuffer, currentParameters, settings)

\* C17: from on, the update made with any other ACSource value (same SOC,
\* same window) would have given the same state and the same relay calls.
C17_VetoOnlySwitchesOn ==
  [][(IsUpdate /\ state = "on") =>
       \A source \in ACSources :
         LET q == [currentParameters' EXCEPT !.ACSource = source]
             t == poll("on", dcPowerBuffer', q, settings)
         IN /\ t = state'
            /\ on_poll("on", t, relayCalls) = relayCalls']_vars

\* on, and still on after an update with ACSource 240
C17_Witness ==
  /\ Len(history) >= 2
  /\ history[1] = ACOut2OverrideParameters(65, 10000, 1)
  /\ relayCalls = <<FALSE, TRUE>>
  /\ currentParameters.ACSource = GridLostSource
  /\ state = "on"

\* C18: evaluating the policy again in the state an update has reached, with
\* the same averaged power, SOC and ACSource, keeps that state.
C18_NoChatter ==
  (pc = "ready" /\ history # <<>>) =>
     poll(state, dcPowerBuffer, currentParameters, settings) \in {state, "none"}

\* just switched off (second update), and just switched on (first update)
C18_Witness ==
  /\ Len(history) = 2
  /\ relayCalls = <<FALSE, TRUE, FALSE>>
  /\ state = "off"

\* C19: once constructed, the last relay callback argument is TRUE exactly
\* when the state is on; the calls start with FALSE and alternate.
C19_RelayAgreement ==
  pc = "ready" =>
    /\ relayCalls # <<>>
    /\ Last(relayCalls) = (state = "on")
    /\ relayCalls[1] = FALSE
    /\ \A i \in 1..(Len(relayCalls) - 1) : relayCalls[i + 1] # relayCalls[i]

C19_Witness ==
  /\ relayCalls = <<FALSE, TRUE, FALSE, TRUE>>
  /\ state = "on"

\* C20: a relay command issued outside of an update (the signal handler) is
\* FALSE, is followed by mainloop.quit() whether or not the write failed, and
\* leaves the engine (state, parameters, window, callback log) unchanged.
C20_Shutdown ==
  [][(pc = "ready" /\ relayCommands' # relayCommands /\ history' = history) =>
       /\ relayCommands' = Append(relayCommands, FALSE)
       /\ quit'
       /\ UNCHANGED <<state, currentParameters, dcPowerBuffer, relayCalls>>]_vars

\* shut down with a failed write while the engine is on
C20_Witness ==
  /\ quit
  /\ outcome = "WriteError"
  /\ state = "on"
  /\ Last(relayCalls) = TRUE
  /\ Last(relayCommands) = FALSE

====
